---------------------------- MODULE Spec2Model ----------------------------
(***************************************************************************)
(* TokenSubscriber (src/envoy/token/token_subscriber.cc): the fetch /      *)
(* parse / schedule / retry cycle of one token source on a single-threaded *)
(* event loop.  Every action is one event-loop callback run to completion. *)
(***************************************************************************)
EXTENDS Integers, Sequences, FiniteSets, TLC

\* ----------------------------------------------------------------------
\* Program constants (seconds)
\* ----------------------------------------------------------------------
kFailedRequestRetryTime == 2

kRefreshBuffer == 5

\* Http::Code::OK
HttpOK == 200

\* ----------------------------------------------------------------------
\* Bounds of the model
\* ----------------------------------------------------------------------
\* number of requests sent in one behaviour, and the count up to which
\* refresh() calls are told apart
MaxRefreshes == 4

\* largest expiry duration (seconds) a token response carries
MaxExpiresIn == 7

\* ----------------------------------------------------------------------
\* Inputs
\* ----------------------------------------------------------------------
TokenTypes == {"IdentityToken", "AccessToken", "Unknown"}

Tokens == {"abc", "xyz"}

\* negative, zero, just below, at and above the refresh buffer
ExpiresInValues ==
  {0 - 1, 0, kRefreshBuffer - 1} \cup (kRefreshBuffer .. MaxExpiresIn)

\* a status other than OK
HttpUnavailable == 503

\* value of the :status header; NoStatus stands for a response without one
NoStatus == 0 - 1

Statuses == {NoStatus, HttpOK, HttpUnavailable}

\* body shapes: what the two TokenInfo parsers accept, or neither
Shapes == {"identity", "access", "garbage"}

\* responses; the body is spelled out only where the code reads it
Responses ==
  {r \in [status : Statuses, shape : Shapes, token : Tokens,
          expires_in : ExpiresInValues] :
     (r.status # HttpOK \/ r.shape = "garbage")
        => (r.shape = "garbage" /\ r.token = "abc" /\ r.expires_in = 0)}

FailureReasons == {"Reset", "Other"}

\* result of TokenInfo::prepareRequest: a message, or nullptr
Messages == {"message", "null"}

\* outcomes of a cancel() applied to a request that is no longer in flight
UbOutcomes == {"noop", "crash"}

NoResponse == [status |-> NoStatus, shape |-> "garbage", token |-> "", expires_in |-> 0]

VARIABLES
  token_type_,      \* configured token kind, immutable
  phase,            \* "constructed" | "initialized" | "destroyed"
  active_request_,  \* 0 (nullptr) or the id of the request the handle points to
  refresh_timer_,   \* [state, duration, remaining]
  init_target_,     \* "null" | "created" | "registered" | "initialized"
  inflight,         \* requests the async client has sent and not completed or cancelled
  cancelled,        \* requests cancelled while in flight
  completions,      \* [req, newest]: completions processed, with the newest request then
  sent,             \* number of requests sent (the id of the newest one)
  refreshes,        \* number of refresh() calls, counted up to MaxRefreshes
  successes,        \* number of responses parsed successfully
  callbacks,        \* number of consumer callback invocations
  readyCalls,       \* number of init_target_->ready() calls
  events,           \* effects of the last event-loop callback, in program order
  op,               \* the last event-loop callback and its input
  crashed           \* the process died of a use of a dead request

vars == <<token_type_, phase, active_request_, refresh_timer_, init_target_,
          inflight, cancelled, completions, sent, refreshes, successes,
          callbacks, readyCalls, events, op, crashed>>

\* ----------------------------------------------------------------------
\* The subscriber and its collaborators as one value
\* ----------------------------------------------------------------------
Self ==
  [token_type_ |-> token_type_, phase |-> phase,
   active_request_ |-> active_request_, refresh_timer_ |-> refresh_timer_,
   init_target_ |-> init_target_, inflight |-> inflight,
   cancelled |-> cancelled, completions |-> completions, sent |-> sent,
   refreshes |-> refreshes, successes |-> successes, callbacks |-> callbacks,
   readyCalls |-> readyCalls, events |-> << >>, outcome |-> "none",
   crashed |-> crashed]

\* what a cancel() can do in the current state: only a handle to a request
\* that is no longer in flight leaves the outcome open
Dangling == active_request_ # 0 /\ active_request_ \notin inflight

UbChoices == IF Dangling THEN UbOutcomes ELSE {"noop"}

Ev(e, req, tok, n) == [e |-> e, req |-> req, tok |-> tok, n |-> n]

Log(s, e) == [s EXCEPT !.events = Append(@, e)]

NoTimer == [state |-> "absent", duration |-> 0, remaining |-> 0]

DisarmedTimer == [state |-> "disarmed", duration |-> 0, remaining |-> 0]

\* Event::Timer::enableTimer(d): re-arming replaces the pending deadline
enableTimer(s, d) ==
  Log([s EXCEPT !.refresh_timer_ =
         [state |-> "armed", duration |-> d, remaining |-> IF d > 0 THEN d ELSE 0]],
      Ev("arm", 0, "", d))

\* active_request_->cancel(): an in-flight request is withdrawn and never
\* completes; on a request that already completed the call uses a dead object
cancel(s, ub) ==
  IF s.active_request_ \in s.inflight
    THEN Log([s EXCEPT !.inflight = @ \ {s.active_request_},
                       !.cancelled = @ \cup {s.active_request_}],
             Ev("cancel", s.active_request_, "", 0))
    ELSE IF ub = "crash" THEN [s EXCEPT !.crashed = TRUE] ELSE s

\* httpAsyncClientForCluster(token_cluster_).send(message, *this, options)
send(s) ==
  Log([s EXCEPT !.sent = @ + 1,
                !.active_request_ = s.sent + 1,
                !.inflight = @ \cup {s.sent + 1}],
      Ev("send", s.sent + 1, "", 0))

\* callback_(token)
callback_(s, token) ==
  Log([s EXCEPT !.callbacks = @ + 1], Ev("callback", 0, token, 0))

\* init_target_->ready()
ready(s) ==
  Log([s EXCEPT !.readyCalls = @ + 1], Ev("ready", 0, "", 0))

\* variant: the failure path also signals readiness
handleFailResponse_SignalsReady(s) ==
  ready(enableTimer(Log([s EXCEPT !.active_request_ = 0], Ev("clear", 0, "", 0)),
                    kFailedRequestRetryTime))

\* variant: the failure path waits for the refresh buffer instead of the retry delay
handleFailResponse_BufferDelay(s) ==
  enableTimer(Log([s EXCEPT !.active_request_ = 0], Ev("clear", 0, "", 0)),
              kRefreshBuffer)

\* variant: the failure path clears the handle and arms nothing
handleFailResponse_NoRetry(s) ==
  Log([s EXCEPT !.active_request_ = 0], Ev("clear", 0, "", 0))

handleFailResponse(s) ==
  enableTimer(Log([s EXCEPT !.active_request_ = 0], Ev("clear", 0, "", 0)),
              kFailedRequestRetryTime)

\* refresh() is entered; the calls are counted up to MaxRefreshes
Entered(s) ==
  Log([s EXCEPT !.refreshes = IF @ < MaxRefreshes THEN @ + 1 ELSE @],
      Ev("refresh", 0, "", 0))

\* variant: the message is looked at before the outstanding request
refresh_ChecksMessageFirst(s, message, ub) ==
  LET s0 == Entered(s)
      s1 == IF s0.active_request_ # 0 THEN cancel(s0, ub) ELSE s0
  IN  IF message = "null"
        THEN handleFailResponse(Log(s0, Ev("precondition", 0, "", 0)))
        ELSE IF s1.crashed THEN s1 ELSE send(s1)

\* variant: with no message to send refresh() just returns
refresh_GivesUpWithoutMessage(s, message, ub) ==
  LET s0 == Entered(s)
      s1 == IF s0.active_request_ # 0 THEN cancel(s0, ub) ELSE s0
  IN  IF s1.crashed THEN s1
      ELSE IF message = "null"
        THEN Log(s1, Ev("precondition", 0, "", 0))
        ELSE send(s1)

\* variant: a new request is sent without cancelling the outstanding one
refresh_NoCancel(s, message, ub) ==
  LET s0 == Entered(s)
  IN  IF message = "null"
        THEN handleFailResponse(Log(s0, Ev("precondition", 0, "", 0)))
        ELSE send(s0)

\* variant: the outstanding handle is dropped, the request left in flight
refresh_DropsHandle(s, message, ub) ==
  LET s0 == Entered(s)
      s1 == [s0 EXCEPT !.active_request_ = 0]
  IN  IF message = "null"
        THEN handleFailResponse(Log(s1, Ev("precondition", 0, "", 0)))
        ELSE send(s1)

refresh(s, message, ub) ==
  LET s0 == Entered(s)
      s1 == IF s0.active_request_ # 0 THEN cancel(s0, ub) ELSE s0
  IN  IF s1.crashed THEN s1
      ELSE IF message = "null"
        THEN handleFailResponse(Log(s1, Ev("precondition", 0, "", 0)))
        ELSE send(s1)

\* variant: the handle is cleared at the end of the handling
handleSuccessResponse_ClearsLast(s, token, expires_in, message, ub) ==
  LET s2 == callback_(s, token)
      s3 == IF expires_in <= kRefreshBuffer
              THEN refresh(s2, message, ub)
              ELSE enableTimer(s2, expires_in - kRefreshBuffer)
  IN  IF s3.crashed THEN s3
      ELSE Log([ready(s3) EXCEPT !.active_request_ = 0], Ev("clear", 0, "", 0))

\* variant: readiness is signalled before the token is handed over
handleSuccessResponse_ReadyFirst(s, token, expires_in, message, ub) ==
  LET s1 == ready(Log([s EXCEPT !.active_request_ = 0], Ev("clear", 0, "", 0)))
      s2 == callback_(s1, token)
  IN  IF expires_in <= kRefreshBuffer
        THEN refresh(s2, message, ub)
        ELSE enableTimer(s2, expires_in - kRefreshBuffer)

\* variant: the else is missing, the timer is armed after the refresh as well
handleSuccessResponse_ArmsAndRefreshes(s, token, expires_in, message, ub) ==
  LET s1 == Log([s EXCEPT !.active_request_ = 0], Ev("clear", 0, "", 0))
      s2 == callback_(s1, token)
      s3 == IF expires_in <= kRefreshBuffer
              THEN refresh(s2, message, ub)
              ELSE s2
      s4 == enableTimer(s3, expires_in - kRefreshBuffer)
  IN  IF s3.crashed THEN s3 ELSE ready(s4)

\* variant: the expiry is compared with zero, not with the buffer
handleSuccessResponse_ComparesZero(s, token, expires_in, message, ub) ==
  LET s1 == Log([s EXCEPT !.active_request_ = 0], Ev("clear", 0, "", 0))
      s2 == callback_(s1, token)
      s3 == IF expires_in <= 0
              THEN refresh(s2, message, ub)
              ELSE enableTimer(s2, expires_in - kRefreshBuffer)
  IN  IF s3.crashed THEN s3 ELSE ready(s3)

\* variant: returns right after the immediate refresh
handleSuccessResponse_ReturnsAfterRefresh(s, token, expires_in, message, ub) ==
  LET s1 == Log([s EXCEPT !.active_request_ = 0], Ev("clear", 0, "", 0))
      s2 == callback_(s1, token)
  IN  IF expires_in <= kRefreshBuffer
        THEN refresh(s2, message, ub)
        ELSE ready(enableTimer(s2, expires_in - kRefreshBuffer))

\* variant: the timer is armed for the whole expiry, the buffer forgotten
handleSuccessResponse_NoBuffer(s, token, expires_in, message, ub) ==
  LET s1 == Log([s EXCEPT !.active_request_ = 0], Ev("clear", 0, "", 0))
      s2 == callback_(s1, token)
      s3 == IF expires_in <= kRefreshBuffer
              THEN refresh(s2, message, ub)
              ELSE enableTimer(s2, expires_in)
  IN  IF s3.crashed THEN s3 ELSE ready(s3)

\* variant: < in place of <=
handleSuccessResponse_StrictBuffer(s, token, expires_in, message, ub) ==
  LET s1 == Log([s EXCEPT !.active_request_ = 0], Ev("clear", 0, "", 0))
      s2 == callback_(s1, token)
      s3 == IF expires_in < kRefreshBuffer
              THEN refresh(s2, message, ub)
              ELSE enableTimer(s2, expires_in - kRefreshBuffer)
  IN  IF s3.crashed THEN s3 ELSE ready(s3)

handleSuccessResponse(s, token, expires_in, message, ub) ==
  LET s1 == Log([s EXCEPT !.active_request_ = 0], Ev("clear", 0, "", 0))
      s2 == callback_(s1, token)
      s3 == IF expires_in <= kRefreshBuffer
              THEN refresh(s2, message, ub)
              ELSE enableTimer(s2, expires_in - kRefreshBuffer)
  IN  IF s3.crashed THEN s3 ELSE ready(s3)

\* TokenInfo::parseIdentityToken / parseAccessToken: a TokenResult, or failure
\* with the result left value-initialized
parseIdentityToken(response) ==
  IF response.shape = "identity"
    THEN [success |-> TRUE, token |-> response.token,
          expiry_duration |-> response.expires_in]
    ELSE [success |-> FALSE, token |-> "", expiry_duration |-> 0]

parseAccessToken(response) ==
  IF response.shape = "access"
    THEN [success |-> TRUE, token |-> response.token,
          expiry_duration |-> response.expires_in]
    ELSE [success |-> FALSE, token |-> "", expiry_duration |-> 0]

Outcome(s, o) == [s EXCEPT !.outcome = o]

\* Http::Utility::getResponseStatus: throws EnvoyException without a status
getResponseStatus(response) ==
  IF response.status = NoStatus
    THEN [thrown |-> TRUE, status_code |-> 0]
    ELSE [thrown |-> FALSE, status_code |-> response.status]

\* variant: an unrecognized token kind is handled as a failure
processResponse_UnknownKindRetries(s, response, message, ub) ==
  IF getResponseStatus(response).thrown
    THEN handleFailResponse(Outcome(s, "malformed"))
  ELSE IF getResponseStatus(response).status_code # HttpOK
    THEN handleFailResponse(Outcome(s, "bad_status"))
  ELSE IF s.token_type_ \notin {"IdentityToken", "AccessToken"}
    THEN handleFailResponse(Outcome(s, "unknown_kind"))
  ELSE
    LET result == IF s.token_type_ = "IdentityToken"
                    THEN parseIdentityToken(response)
                    ELSE parseAccessToken(response)
    IN  IF ~result.success
          THEN handleFailResponse(Outcome(s, "parse_failure"))
          ELSE handleSuccessResponse(
                 [Outcome(s, "success") EXCEPT !.successes = @ + 1],
                 result.token, result.expiry_duration, message, ub)

\* variant: the parser's verdict is not looked at
processResponse_IgnoresParse(s, response, message, ub) ==
  IF getResponseStatus(response).thrown
    THEN handleFailResponse(Outcome(s, "malformed"))
  ELSE IF getResponseStatus(response).status_code # HttpOK
    THEN handleFailResponse(Outcome(s, "bad_status"))
  ELSE IF s.token_type_ \notin {"IdentityToken", "AccessToken"}
    THEN Outcome(s, "unknown_kind")
  ELSE
    LET result == IF s.token_type_ = "IdentityToken"
                    THEN parseIdentityToken(response)
                    ELSE parseAccessToken(response)
    IN  IF ~result.success
          THEN handleSuccessResponse(Outcome(s, "parse_failure"),
                 result.token, result.expiry_duration, message, ub)
          ELSE handleSuccessResponse(
                 [Outcome(s, "success") EXCEPT !.successes = @ + 1],
                 result.token, result.expiry_duration, message, ub)

processResponse(s, response, message, ub) ==
  IF getResponseStatus(response).thrown
    THEN handleFailResponse(Outcome(s, "malformed"))
  ELSE IF getResponseStatus(response).status_code # HttpOK
    THEN handleFailResponse(Outcome(s, "bad_status"))
  ELSE IF s.token_type_ \notin {"IdentityToken", "AccessToken"}
    THEN Outcome(s, "unknown_kind")
  ELSE
    LET result == IF s.token_type_ = "IdentityToken"
                    THEN parseIdentityToken(response)
                    ELSE parseAccessToken(response)
    IN  IF ~result.success
          THEN handleFailResponse(Outcome(s, "parse_failure"))
          ELSE handleSuccessResponse(
                 [Outcome(s, "success") EXCEPT !.successes = @ + 1],
                 result.token, result.expiry_duration, message, ub)

\* the async client hands request r's completion to the subscriber
Completed(s, r) ==
  [s EXCEPT !.inflight = @ \ {r},
            !.completions = @ \cup {[req |-> r, newest |-> s.sent]}]

onSuccess(s, r, response, message, ub) ==
  processResponse(Completed(s, r), response, message, ub)

onFailure(s, r, reason) ==
  handleFailResponse(Outcome(Completed(s, r), "transport"))

\* std::make_unique<Init::TargetImpl>(debug_name_, [this] { refresh(); }):
\* a new target; one held before is destroyed and is initialized by nobody
makeTarget(s) ==
  Log([s EXCEPT !.init_target_ = "created"], Ev("target", 0, "", 0))

\* dispatcher().createTimer(...): a new, disarmed timer; one held before is
\* destroyed and its deadline with it
createTimer(s) ==
  Log([s EXCEPT !.refresh_timer_ = DisarmedTimer], Ev("timer", 0, "", 0))

\* initManager().add(*init_target_)
addTarget(s) ==
  Log([s EXCEPT !.init_target_ = "registered"], Ev("add", 0, "", 0))

\* variant: init() arms the timer it creates
init_ArmsTimer(s) ==
  addTarget(enableTimer(createTimer(makeTarget([s EXCEPT !.phase = "initialized"])),
                        kFailedRequestRetryTime))

init(s) ==
  addTarget(createTimer(makeTarget([s EXCEPT !.phase = "initialized"])))

\* variant: the destructor leaves the outstanding request alone
Destructor_NoCancel(s, ub) ==
  [s EXCEPT !.phase = "destroyed",
            !.refresh_timer_ = NoTimer,
            !.init_target_ = "null"]

\* ~TokenSubscriber, then the members' own destructors (timer, init target)
Destructor(s, ub) ==
  LET s1 == IF s.active_request_ # 0 THEN cancel(s, ub) ELSE s
  IN  [s1 EXCEPT !.phase = "destroyed",
                 !.refresh_timer_ = NoTimer,
                 !.init_target_ = "null"]

\* ----------------------------------------------------------------------
\* Actions: one per event-loop callback
\* ----------------------------------------------------------------------
Commit(s, o) ==
  /\ s.sent <= MaxRefreshes
  /\ phase' = s.phase
  /\ active_request_' = s.active_request_
  /\ refresh_timer_' = s.refresh_timer_
  /\ init_target_' = s.init_target_
  /\ inflight' = s.inflight
  /\ cancelled' = s.cancelled
  /\ completions' = s.completions
  /\ sent' = s.sent
  /\ refreshes' = s.refreshes
  /\ successes' = s.successes
  /\ callbacks' = s.callbacks
  /\ readyCalls' = s.readyCalls
  /\ events' = s.events
  /\ crashed' = s.crashed
  /\ op' = [o EXCEPT !.outcome = s.outcome]
  /\ UNCHANGED token_type_

Op(name, r, response) ==
  [name |-> name, req |-> r, response |-> response, outcome |-> "none"]

Running == ~crashed

InitCall ==
  /\ Running
  /\ phase = "constructed"
  /\ Commit(init(Self), Op("init", 0, NoResponse))

\* the init manager initializes the registered target: [this] { refresh(); }
TargetInitialize ==
  /\ Running
  /\ init_target_ = "registered"
  /\ \E message \in Messages, ub \in UbChoices :
       Commit(refresh([Self EXCEPT !.init_target_ = "initialized"], message, ub),
              Op("initialize", 0, NoResponse))

\* one second passes while a deadline is pending
Tick ==
  /\ Running
  /\ refresh_timer_.state = "armed"
  /\ refresh_timer_.remaining > 0
  /\ Commit([Self EXCEPT !.refresh_timer_.remaining = @ - 1],
            Op("tick", 0, NoResponse))

\* the timer's deadline is reached: [this]() -> void { refresh(); }
TimerFire ==
  /\ Running
  /\ refresh_timer_.state = "armed"
  /\ refresh_timer_.remaining = 0
  /\ \E message \in Messages, ub \in UbChoices :
       Commit(refresh([Self EXCEPT !.refresh_timer_ = DisarmedTimer], message, ub),
              Op("timer", 0, NoResponse))

OnSuccess ==
  /\ Running
  /\ \E r \in inflight, response \in Responses, message \in Messages,
        ub \in UbChoices :
       Commit(onSuccess(Self, r, response, message, ub),
              Op("onSuccess", r, response))

OnFailure ==
  /\ Running
  /\ \E r \in inflight, reason \in FailureReasons :
       Commit(onFailure(Self, r, reason), Op("onFailure", r, NoResponse))

\* refresh() entered while the subscriber is running, outside the cycle
RefreshCall ==
  /\ Running
  /\ phase = "initialized"
  /\ \E message \in Messages, ub \in UbChoices :
       Commit(refresh(Self, message, ub), Op("refresh", 0, NoResponse))

Destroy ==
  /\ Running
  /\ phase # "destroyed"
  /\ \E ub \in UbChoices :
       Commit(Destructor(Self, ub), Op("destroy", 0, NoResponse))

Init ==
  /\ token_type_ \in TokenTypes
  /\ phase = "constructed"
  /\ active_request_ = 0
  /\ refresh_timer_ = NoTimer
  /\ init_target_ = "null"
  /\ inflight = {}
  /\ cancelled = {}
  /\ completions = {}
  /\ sent = 0
  /\ refreshes = 0
  /\ successes = 0
  /\ callbacks = 0
  /\ readyCalls = 0
  /\ events = << >>
  /\ op = Op("construct", 0, NoResponse)
  /\ crashed = FALSE

Next ==
  \/ InitCall
  \/ TargetInitialize
  \/ Tick
  \/ TimerFire
  \/ OnSuccess
  \/ OnFailure
  \/ RefreshCall
  \/ Destroy

Spec == Init /\ [][Next]_vars

\* the cycle alone: refresh() is entered only from the init target, the
\* timer and handleSuccessResponse
CycleNext ==
  \/ InitCall
  \/ TargetInitialize
  \/ Tick
  \/ TimerFire
  \/ OnSuccess
  \/ OnFailure
  \/ Destroy

CycleSpec == Init /\ [][CycleNext]_vars

\* the event loop runs due timers and the transport completes or times out
\* every request it holds
LiveSpec ==
  /\ Init
  /\ [][CycleNext]_vars
  /\ WF_vars(Tick)
  /\ WF_vars(TimerFire)
  /\ WF_vars(OnSuccess \/ OnFailure)

\* init() called on a subscriber that is already initialized
ReInitCall ==
  /\ Running
  /\ phase = "initialized"
  /\ Commit(init(Self), Op("init", 0, NoResponse))

ReinitNext ==
  \/ InitCall
  \/ ReInitCall
  \/ TargetInitialize
  \/ Tick
  \/ TimerFire
  \/ OnSuccess
  \/ OnFailure
  \/ Destroy

ReinitSpec == Init /\ [][ReinitNext]_vars

TypeOK ==
  /\ token_type_ \in TokenTypes
  /\ phase \in {"constructed", "initialized", "destroyed"}
  /\ active_request_ \in 0 .. MaxRefreshes
  /\ inflight \subseteq 1 .. MaxRefreshes
  /\ refreshes \in 0 .. MaxRefreshes

\* ----------------------------------------------------------------------
\* Vocabulary of the properties
\* ----------------------------------------------------------------------
HasEvent(e) == \E i \in DOMAIN events : events[i].e = e

IsCallback(ev) == ev.e = "callback"

CallbackEvents == SelectSeq(events, IsCallback)

TimerArmedFor(d) ==
  refresh_timer_ = [state |-> "armed", duration |-> d, remaining |-> d]

\* the last callback was a completion whose response parsed successfully
ParsedOK == op.name = "onSuccess" /\ op.outcome = "success"

SuccessLong == ParsedOK /\ op.response.expires_in > kRefreshBuffer

SuccessShort == ParsedOK /\ op.response.expires_in <= kRefreshBuffer

\* ----------------------------------------------------------------------
\* C1: at most one request is in flight in every reachable state, and it
\* is the one the handle refers to; a refresh() entered while a request is
\* outstanding cancels it before it sends the new one.
\* ----------------------------------------------------------------------
C1_AtMostOneInFlight ==
  /\ Cardinality(inflight) <= 1
  /\ inflight \subseteq {active_request_}
  /\ \A j \in DOMAIN events :
       events[j].e = "send" =>
         \A i \in DOMAIN events : events[i].e = "cancel" => i < j

C1_Witness ==
  /\ op.name = "refresh"
  /\ \E i, j \in DOMAIN events :
       /\ i < j
       /\ events[i].e = "cancel"
       /\ events[j].e = "send"
       /\ events[i].req # events[j].req
  /\ Cardinality(inflight) = 1

C3_ReadyOnlyAfterSuccess ==
  /\ readyCalls > 0 => successes > 0
  /\ HasEvent("ready") => ParsedOK

C3_Witness ==
  /\ refreshes >= 3
  /\ Cardinality(completions) >= 2
  /\ successes = 0
  /\ readyCalls = 0
  /\ op.outcome = "parse_failure"

\* ----------------------------------------------------------------------
\* C4: a success with expires_in above the refresh buffer arms the timer
\* for exactly expires_in - kRefreshBuffer and sends nothing; while a
\* deadline is pending and not reached no refresh() runs.
\* ----------------------------------------------------------------------
C4_LongExpiryArmsTimer ==
  /\ [](SuccessLong =>
          /\ TimerArmedFor(op.response.expires_in - kRefreshBuffer)
          /\ active_request_ = 0
          /\ inflight = {}
          /\ ~HasEvent("send")
          /\ ~HasEvent("refresh"))
  /\ [][(refresh_timer_.state = "armed" /\ refresh_timer_.remaining > 0)
          => \A i \in DOMAIN events' : events'[i].e # "refresh"]_vars

C4_Witness ==
  /\ SuccessLong
  /\ op.response.expires_in = kRefreshBuffer + 2
  /\ TimerArmedFor(2)
  /\ callbacks = 1

\* ----------------------------------------------------------------------
\* C5: a success with expires_in at or below the refresh buffer (zero and
\* negative included) clears the handle, calls the consumer, then enters
\* refresh() in the same handling; the timer is not armed for the success
\* (only the unmet-precondition path of that refresh arms the retry delay).
\* ----------------------------------------------------------------------
C5_ShortExpiryRefreshesNow ==
  SuccessShort =>
    \/ events = << Ev("clear", 0, "", 0),
                   Ev("callback", 0, op.response.token, 0),
                   Ev("refresh", 0, "", 0),
                   Ev("send", sent, "", 0),
                   Ev("ready", 0, "", 0) >>
    \/ events = << Ev("clear", 0, "", 0),
                   Ev("callback", 0, op.response.token, 0),
                   Ev("refresh", 0, "", 0),
                   Ev("precondition", 0, "", 0),
                   Ev("clear", 0, "", 0),
                   Ev("arm", 0, "", kFailedRequestRetryTime),
                   Ev("ready", 0, "", 0) >>

C5_Witness ==
  /\ SuccessShort
  /\ op.response.expires_in < 0
  /\ HasEvent("send")
  /\ active_request_ = sent
  /\ inflight = {sent}

\* ----------------------------------------------------------------------
\* C6: after a failure of any category (bad status, transport failure,
\* unreadable status, parse failure, unmet precondition) the handle is
\* null and the timer is armed for exactly kFailedRequestRetryTime; the
\* failure's handling invokes no consumer callback.
\* ----------------------------------------------------------------------
CompletionFailures == {"bad_status", "transport", "malformed", "parse_failure"}

FailureTail ==
  << Ev("clear", 0, "", 0), Ev("arm", 0, "", kFailedRequestRetryTime) >>

C6_FailureArmsRetry ==
  /\ op.outcome \in CompletionFailures =>
       /\ events = FailureTail
       /\ active_request_ = 0
       /\ TimerArmedFor(kFailedRequestRetryTime)
  /\ \A i \in DOMAIN events :
       events[i].e = "precondition" =>
         /\ Len(events) >= i + 2
         /\ SubSeq(events, i + 1, i + 2) = FailureTail
         /\ \A k \in (i + 3) .. Len(events) : events[k].e = "ready"
         /\ active_request_ = 0
         /\ TimerArmedFor(kFailedRequestRetryTime)

C6_Witness ==
  /\ op.name = "onSuccess"
  /\ op.outcome = "malformed"
  /\ callbacks = 0
  /\ active_request_ = 0
  /\ TimerArmedFor(kFailedRequestRetryTime)

\* ----------------------------------------------------------------------
\* C7: destruction cancels an outstanding request first and leaves nothing
\* that can call back: once the subscriber is destroyed no completion is
\* processed, no refresh() runs and no consumer callback is invoked.
\* ----------------------------------------------------------------------
C7_NoCallbackAfterDestroy ==
  /\ [](phase = "destroyed" =>
          /\ inflight = {}
          /\ refresh_timer_.state = "absent"
          /\ init_target_ = "null")
  /\ [](op.name = "destroy" =>
          \/ events = << >>
          \/ events = << Ev("cancel", active_request_, "", 0) >>)
  /\ [][phase = "destroyed" =>
          /\ callbacks' = callbacks
          /\ completions' = completions
          /\ refreshes' = refreshes
          /\ readyCalls' = readyCalls
          /\ events' = events]_vars

C7_Witness ==
  /\ phase = "destroyed"
  /\ op.name = "destroy"
  /\ HasEvent("cancel")
  /\ active_request_ \in cancelled

\* ----------------------------------------------------------------------
\* C8: a request replaced by refresh() is cancelled and its completion is
\* never processed: every completion processed belongs to the newest
\* request sent, never to a cancelled one.
\* ----------------------------------------------------------------------
C8_CancelledNeverCompletes ==
  /\ \A c \in completions : c.req = c.newest /\ c.req \notin cancelled
  /\ op.name \in {"onSuccess", "onFailure"} => op.req \notin cancelled

C8_Witness ==
  /\ ParsedOK
  /\ cancelled # {}
  /\ \A a \in cancelled : a < op.req
  /\ callbacks = 1
  /\ refresh_timer_.state = "armed"

\* ----------------------------------------------------------------------
\* C9: a response that parses successfully causes exactly one consumer
\* callback, in the same handling and with that response's token; any
\* other completion causes none; callbacks number the successful parses.
\* ----------------------------------------------------------------------
C9_OneCallbackPerSuccess ==
  /\ callbacks = successes
  /\ ParsedOK => CallbackEvents = << Ev("callback", 0, op.response.token, 0) >>
  /\ ~ParsedOK => CallbackEvents = << >>

C9_Witness ==
  /\ ParsedOK
  /\ op.response.token = "xyz"
  /\ callbacks = 2
  /\ successes = 2

\* ----------------------------------------------------------------------
\* C10 (as stated): from the first refresh() to destruction a request is in
\* flight or a timer deadline is pending.
\* ----------------------------------------------------------------------
Started == refreshes >= 1 /\ phase = "initialized" /\ ~crashed

Pending == inflight # {} \/ refresh_timer_.state = "armed"

KnownKind == token_type_ \in {"IdentityToken", "AccessToken"}

C10_Original == Started => Pending

\* C10 (amended): for the token kinds Identity and Access, from the first
\* refresh() to destruction a request is in flight or a deadline is
\* pending, and with timers firing and requests completing the next
\* refresh() always follows.
C10_NeverGivesUp ==
  /\ []((Started /\ KnownKind) => Pending)
  /\ \A n \in 1 .. (MaxRefreshes - 1) :
       (Started /\ KnownKind /\ refreshes = n)
          ~> (refreshes > n \/ phase = "destroyed")

C10_Witness ==
  /\ Started
  /\ KnownKind
  /\ refreshes = MaxRefreshes
  /\ successes >= 1
  /\ Cardinality(completions) >= 3
  /\ Pending

\* ----------------------------------------------------------------------
\* C11: init() makes one target, creates the timer disarmed and then
\* registers the target; until the init manager initializes that target
\* no refresh() has run, nothing is sent and no deadline is pending, and
\* the first refresh() is the one the target's initialization runs.
\* ----------------------------------------------------------------------
Uninitialized == phase # "destroyed" /\ init_target_ # "initialized"

C11_FirstRefreshFromTarget ==
  /\ [](op.name = "init" =>
          /\ events = << Ev("target", 0, "", 0), Ev("timer", 0, "", 0),
                         Ev("add", 0, "", 0) >>
          /\ init_target_ = "registered"
          /\ refresh_timer_ = DisarmedTimer)
  /\ [](Uninitialized =>
          /\ refreshes = 0
          /\ sent = 0
          /\ inflight = {}
          /\ refresh_timer_.state # "armed")
  /\ [][(refreshes = 0 /\ refreshes' > 0) => op'.name = "initialize"]_vars

C11_Witness ==
  /\ op.name = "initialize"
  /\ init_target_ = "initialized"
  /\ refreshes = 1
  /\ inflight = {1}
  /\ refresh_timer_ = DisarmedTimer

\* ----------------------------------------------------------------------
\* C12: a refresh() for which prepareRequest returns nullptr sends nothing
\* and leaves nothing outstanding (an outstanding request is cancelled, the
\* handle cleared), arms the timer for kFailedRequestRetryTime and itself
\* calls neither the consumer nor ready().
\* ----------------------------------------------------------------------
C12_UnmetPreconditionRetries ==
  \A i \in DOMAIN events :
    events[i].e = "precondition" =>
      /\ ~HasEvent("send")
      /\ inflight = {}
      /\ active_request_ = 0
      /\ TimerArmedFor(kFailedRequestRetryTime)
      /\ \A k \in i .. Len(events) : events[k].e # "callback"
      /\ op.name # "onSuccess" => ~HasEvent("ready") /\ ~HasEvent("callback")

C12_Witness ==
  /\ op.name = "refresh"
  /\ HasEvent("cancel")
  /\ HasEvent("precondition")
  /\ cancelled = {sent}
  /\ callbacks = 0

\* ----------------------------------------------------------------------
\* C13: completions are processed one whole handling at a time, in the
\* order the requests were sent: when the completion of a request is
\* processed every older request is already processed or cancelled, and a
\* request sent from inside the handling of a success is, when that
\* handling ends with all its effects, in flight, unprocessed and the one
\* the handle refers to.
\* ----------------------------------------------------------------------
Processed == {c.req : c \in completions}

C13_CompletionsInOrder ==
  /\ [][completions' # completions =>
          /\ Processed' = Processed \cup {op'.req}
          /\ op'.req \notin Processed
          /\ \A r \in 1 .. (op'.req - 1) : r \in Processed \cup cancelled]_vars
  /\ []((SuccessShort /\ HasEvent("send")) =>
          /\ op.req \in Processed
          /\ sent = op.req + 1
          /\ sent \notin Processed
          /\ inflight = {sent}
          /\ active_request_ = sent
          /\ events[Len(events)].e = "ready")

C13_Witness ==
  /\ op.name = "onSuccess"
  /\ op.req = 2
  /\ Processed = {1, 2}
  /\ successes = 2
  /\ \E c \in completions : c.req = 1 /\ c.newest = 1

\* ----------------------------------------------------------------------
\* C14 (as stated): if from some point on every request is answered by an
\* OK response of a shape a parser accepts, a started subscriber eventually
\* hands a token to the consumer and signals readiness (unless it is
\* destroyed or the requests followed here are used up).
\* ----------------------------------------------------------------------
Parseable(response) ==
  /\ response.status = HttpOK
  /\ \/ token_type_ = "IdentityToken" /\ response.shape = "identity"
     \/ token_type_ = "AccessToken" /\ response.shape = "access"
     \/ token_type_ = "Unknown" /\ response.shape \in {"identity", "access"}

\* a step that processes a completion processes a parseable OK response
GoodAnswer ==
  completions' # completions =>
    op'.name = "onSuccess" /\ Parseable(op'.response)

\* a step finds TokenInfo's preconditions met
MessageBuilt == \A i \in DOMAIN events' : events'[i].e # "precondition"

Delivered == callbacks > 0 /\ readyCalls > 0

Over == phase = "destroyed" \/ sent = MaxRefreshes

C14_Original ==
  (<>[][GoodAnswer]_vars) => [](Started => <>(Delivered \/ Over))

\* C14 (amended): for the token kinds Identity and Access, if from some
\* point on TokenInfo builds a request at every refresh() and every request
\* is answered by an OK response that parses, the subscriber eventually
\* hands a token to the consumer and signals readiness.
C14_EventuallyDelivers ==
  ((<>[][GoodAnswer]_vars) /\ (<>[][MessageBuilt]_vars))
     => []((Started /\ KnownKind) => <>(Delivered \/ Over))

C14_Witness ==
  /\ ParsedOK
  /\ Delivered
  /\ successes = 1
  /\ Cardinality(completions) = 3
  /\ refreshes = MaxRefreshes
  /\ sent < MaxRefreshes

\* ----------------------------------------------------------------------
\* C15: an OK response completing under a token kind that is neither
\* Identity nor Access has no effect at all: no consumer callback, no
\* ready(), no timer armed; the handle is left as it was.
\* ----------------------------------------------------------------------
C15_UnknownKindNoEffect ==
  op.outcome = "unknown_kind" =>
    /\ events = << >>
    /\ active_request_ = op.req
    /\ op.req \notin inflight
    /\ callbacks = 0
    /\ readyCalls = 0

C15_Witness ==
  /\ op.name = "onSuccess"
  /\ op.outcome = "unknown_kind"
  /\ op.response.status = HttpOK
  /\ op.response.shape = "identity"
  /\ refresh_timer_ = DisarmedTimer

\* ----------------------------------------------------------------------
\* C16: between callbacks a non-null handle refers to a request that is
\* still in flight, so no cancel() is applied to a completed request.
\* ----------------------------------------------------------------------
C16_HandleInFlight ==
  (phase # "destroyed" /\ active_request_ # 0) => active_request_ \in inflight

\* ----------------------------------------------------------------------
\* C17: readiness is signalled only after the consumer has been given a
\* token: every ready() call comes after a callback_ call of the same
\* handling.
\* ----------------------------------------------------------------------
C17_CallbackBeforeReady ==
  /\ readyCalls > 0 => callbacks > 0
  /\ readyCalls <= callbacks
  /\ \A j \in DOMAIN events :
       events[j].e = "ready" =>
         \E i \in 1 .. (j - 1) : events[i].e = "callback"

C17_Witness ==
  /\ SuccessLong
  /\ readyCalls = 1
  /\ callbacks = 1
  /\ events[2].e = "callback"
  /\ events[Len(events)].e = "ready"

\* ----------------------------------------------------------------------
\* C18: on the cycle a pending deadline and an in-flight request never
\* coexist, and refresh() is entered from the init target and from the
\* timer with a null handle: its cancel branch is not taken.
\* ----------------------------------------------------------------------
C18_TimerXorRequest ==
  /\ [](~(refresh_timer_.state = "armed" /\ inflight # {}))
  /\ [](op.name # "destroy" => ~HasEvent("cancel"))
  /\ [][op'.name \in {"initialize", "timer"} => active_request_ = 0]_vars

C18_Witness ==
  /\ op.name = "timer"
  /\ HasEvent("send")
  /\ sent = 2
  /\ inflight = {2}
  /\ refresh_timer_ = DisarmedTimer
  /\ cancelled = {}

\* ----------------------------------------------------------------------
\* C19: every duration the timer is armed with is strictly positive: the
\* retry delay, or expires_in - kRefreshBuffer of a success with
\* expires_in above the buffer.
\* ----------------------------------------------------------------------
C19_PositiveDurations ==
  /\ refresh_timer_.state = "armed" => refresh_timer_.duration >= 1
  /\ \A i \in DOMAIN events :
       events[i].e = "arm" =>
         /\ events[i].n >= 1
         /\ \/ events[i].n = kFailedRequestRetryTime
            \/ SuccessLong /\ events[i].n = op.response.expires_in - kRefreshBuffer

C19_Witness ==
  /\ SuccessLong
  /\ op.response.expires_in = kRefreshBuffer + 1
  /\ TimerArmedFor(1)

\* ----------------------------------------------------------------------
\* C20: init() on an initialized subscriber changes nothing: no second
\* target is made or registered, the timer and its deadline stay.
\* ----------------------------------------------------------------------
C20_InitIdempotent ==
  [][(phase = "initialized" /\ op'.name = "init") =>
       /\ init_target_' = init_target_
       /\ refresh_timer_' = refresh_timer_
       /\ events' = << >>]_vars

=============================================================================
